---- MODULE Spec2Model ----
(***************************************************************************)
(* Moon Highlighter: transfer of highlight records from a SQLite table     *)
(* onto the text of a PDF (src/moon_highlighter.py), and the simplified    *)
(* variant (src/moon_highlighter_simple.py).                               *)
(*                                                                         *)
(* Strings are sequences of one-character strings.  A page is a record     *)
(* [words, broken]: the word tokens of the page in reading order, and      *)
(* whether reading the page raises.  A quad is <<k, a, b>>: the characters *)
(* a..b of the k-th token slot of a page; like fitz.Quad it holds          *)
(* coordinates only, so equal slots on two pages give equal quads.         *)
(***************************************************************************)
EXTENDS Integers, Sequences, FiniteSets, TLC

VARIABLES
    pc,               \* position of the batch run
    use_fuzzy,        \* not args.no_fuzzy
    pdf_exists,       \* self.pdf_path.exists()
    db_exists,        \* self.db_path.exists()
    highlights,       \* rows fetched by get_highlights_from_db
    doc,              \* pages of the opened document
    conn_state,       \* "none" | "open" | "closed"
    doc_state,        \* "none" | "open" | "closed"
    i,                \* index of the record being processed (1-based)
    found_quads,      \* found_quads of the current record
    fuzzy_used,       \* fuzzy_used of the current record
    found_highlights,
    not_found_highlights,
    fuzzy_highlights,
    annots,           \* annotations present in the document, in order added
    text_cache,       \* self.text_cache: page index -> page text
    result,           \* outcome of process_highlights
    output_saved,     \* an output file was written
    exit_code,        \* status passed to sys.exit, -1 while running
    query_executed,   \* cursor.execute was called
    fuzzy_invoked,    \* records for which find_text_fuzzy was called
    processed,        \* records whose loop iteration completed
    annot_failures,   \* add_highlight_annotation calls that returned False
    db_outcome,       \* how the query of get_highlights_from_db ended
    output_path,      \* "none" until lines 326-330 choose the file to save to
    input_written,    \* the input PDF file was opened for writing
    progress_callback, \* process_highlights was given a progress callback
    progress,         \* the <<current, total>> pairs passed to the callback
    text_extractions, \* page index -> number of page.get_text() results
    word_extractions, \* page index -> number of page.get_text("words") results
    fuzzy_page,       \* page of the fuzzy match of the current record, or 0
    outcomes,         \* outcome of each processed record, in order
    fields,           \* the window's pdf_var, book_var, db_var: "empty" | "filled"
    threads,          \* the worker threads started by the window, in order
    highlighter,      \* self.highlighter of the window: 0 (None) or the thread
                      \* whose MoonHighlighter instance it holds
    log_writers,      \* threads that wrote to log_text since it was last cleared
    progress_writer,  \* thread that last set progress_var, 0 for the UI thread
    color_value,      \* argument of the last map_color call
    rgb,              \* result of MoonHighlighter.map_color
    hex,              \* result of MoonHighlighterSimple.map_color
    prev_call         \* the map_color call before the last one

vars == <<pc, use_fuzzy, pdf_exists, db_exists, highlights, doc, conn_state,
          doc_state, i, found_quads, fuzzy_used, found_highlights,
          not_found_highlights, fuzzy_highlights, annots, text_cache, result,
          output_saved, exit_code, query_executed, fuzzy_invoked, processed,
          annot_failures, db_outcome, output_path, input_written,
          progress_callback, progress, text_extractions, word_extractions,
          fuzzy_page, outcomes, fields, threads, highlighter, log_writers,
          progress_writer, color_value, rgb, hex, prev_call>>

runVars == <<pc, use_fuzzy, pdf_exists, db_exists, highlights, doc, conn_state,
             doc_state, i, found_quads, fuzzy_used, found_highlights,
             not_found_highlights, fuzzy_highlights, annots, text_cache, result,
             output_saved, exit_code, query_executed, fuzzy_invoked, processed,
             annot_failures, db_outcome, output_path, input_written,
             progress_callback, progress, text_extractions, word_extractions,
             fuzzy_page, outcomes>>

colorVars == <<color_value, rgb, hex, prev_call>>

guiVars == <<fields, threads, highlighter, log_writers, progress_writer>>

----------------------------------------------------------------------------
(* Bounds of the model *)

MaxRecords == 2
MaxPages == 2
MaxThreads == 2
SmallCode == 40

----------------------------------------------------------------------------
(* Helpers on sequences *)

Range(s) == {s[k] : k \in DOMAIN s}

Max(S) == CHOOSE x \in S : \A y \in S : y <= x

RECURSIVE SeqsUpTo(_, _)
SeqsUpTo(S, n) ==
    IF n = 0 THEN {<<>>}
    ELSE LET shorter == SeqsUpTo(S, n - 1)
         IN  shorter \cup {Append(s, x) : s \in {t \in shorter : Len(t) = n - 1}, x \in S}

RECURSIVE Concat(_)
Concat(ss) == IF ss = <<>> THEN <<>> ELSE Head(ss) \o Concat(Tail(ss))

----------------------------------------------------------------------------
(* Strings *)

LowerChar(c) == IF c = "H" THEN "h" ELSE c

\* str.lower()
lower(s) == [k \in 1..Len(s) |-> LowerChar(s[k])]

\* s[a:b] with Python's half-open, 0-based, clamped slice
Slice(s, a, b) ==
    LET hi == IF b > Len(s) THEN Len(s) ELSE b
    IN  IF a >= hi THEN <<>> ELSE SubSeq(s, a + 1, hi)

\* text[:n]
Prefix(s, n) == Slice(s, 0, n)

----------------------------------------------------------------------------
(* difflib.SequenceMatcher, as used by fuzzywuzzy *)

\* a[x .. x+k-1] = b[y .. y+k-1], 1-based
BlockAt(a, b, x, y, k) == \A d \in 0..(k - 1) : a[x + d] = b[y + d]

\* the common blocks of a and b
CommonBlocks(a, b) ==
    {c \in (1..Len(a)) \X (1..Len(b)) \X (1..Len(a)) :
        /\ c[1] + c[3] - 1 <= Len(a)
        /\ c[2] + c[3] - 1 <= Len(b)
        /\ BlockAt(a, b, c[1], c[2], c[3])}

\* find_longest_match: longest block, earliest in a, then earliest in b
LongestBlock(a, b) ==
    LET C == CommonBlocks(a, b)
    IN  CHOOSE c \in C : \A d \in C :
            \/ c[3] > d[3]
            \/ c[3] = d[3] /\ c[1] < d[1]
            \/ c[3] = d[3] /\ c[1] = d[1] /\ c[2] <= d[2]

\* get_matching_blocks as triples <<x, y, k>> (0-based starts), without the
\* terminating dummy; oa, ob are the offsets of a and b in the whole strings
RECURSIVE MatchingBlocks(_, _, _, _)
MatchingBlocks(a, b, oa, ob) ==
    IF CommonBlocks(a, b) = {} THEN {}
    ELSE LET c == LongestBlock(a, b)
         IN  {<<oa + c[1] - 1, ob + c[2] - 1, c[3]>>}
                \cup MatchingBlocks(Slice(a, 0, c[1] - 1), Slice(b, 0, c[2] - 1), oa, ob)
                \cup MatchingBlocks(Slice(a, c[1] + c[3] - 1, Len(a)),
                                    Slice(b, c[2] + c[3] - 1, Len(b)),
                                    oa + c[1] + c[3] - 1, ob + c[2] + c[3] - 1)

RECURSIVE SumSizes(_)
SumSizes(B) ==
    IF B = {} THEN 0
    ELSE LET c == CHOOSE x \in B : TRUE IN c[3] + SumSizes(B \ {c})

\* round(100 * SequenceMatcher.ratio()): 2.0 * matches / (len(a) + len(b))
Ratio100(a, b) ==
    LET T == Len(a) + Len(b)
        M == SumSizes(MatchingBlocks(a, b, 0, 0))
    IN  IF T = 0 THEN 100 ELSE (400 * M + T) \div (2 * T)

\* fuzz.partial_ratio: the best ratio of the shorter string against the
\* windows of the longer one that the matching blocks align
partial_ratio(s1, s2) ==
    IF s1 = s2 THEN 100
    ELSE IF Len(s1) = 0 \/ Len(s2) = 0 THEN 0
    ELSE LET shorter == IF Len(s1) <= Len(s2) THEN s1 ELSE s2
             longer  == IF Len(s1) <= Len(s2) THEN s2 ELSE s1
             blocks  == MatchingBlocks(shorter, longer, 0, 0)
                            \cup {<<Len(shorter), Len(longer), 0>>}
             starts  == {IF c[2] - c[1] > 0 THEN c[2] - c[1] ELSE 0 : c \in blocks}
         IN  Max({Ratio100(shorter, Slice(longer, st, st + Len(shorter))) : st \in starts})

----------------------------------------------------------------------------
(* Color Mapper *)

(* Python integers are unbounded and the codes of interest do not all fit in
   32 bits, so an integer n is held as <<hi, lo>> with n = hi * 65536 + lo and
   0 <= lo < 65536. *)
W(n) == <<n \div 65536, n % 65536>>

\* n + k * 2^32
Plus2p32(c, k) == <<c[1] + k * 65536, c[2]>>

IsInt32(c) == -32768 <= c[1] /\ c[1] <= 32767

IsNegative(c) == c[1] < 0

\* abs(c) of an <<hi, lo>> integer
AbsW(c) ==
    IF ~IsNegative(c) THEN c
    ELSE IF c[2] = 0 THEN <<-c[1], 0>>
    ELSE <<-c[1] - 1, 65536 - c[2]>>

\* c % 256 (Python's modulo: the result has the sign of the divisor)
Mod256(c) == c[2] % 256

\* c >> bits for bits of 8 or 16 (floor division by 2^bits), as a plain
\* integer; c is below 2^39 in absolute value
ShiftRight(c, bits) ==
    IF bits = 16 THEN c[1] ELSE c[1] * 256 + c[2] \div 256

RECURSIVE Gcd(_, _)
Gcd(a, b) == IF b = 0 THEN a ELSE Gcd(b, a % b)

\* the value n / 255.0, as a fraction in lowest terms
Over255(n) == LET g == Gcd(255, n) IN <<n \div g, 255 \div g>>

One == <<1, 1>>
Zero == <<0, 1>>

\* abs(n) of a small integer
Abs(n) == IF n < 0 THEN -n ELSE n

Yellow  == W(1996532479)
Green   == W(-1996554240)
Blue    == W(2013265664)
Red     == W(-256)
Magenta == W(16711680)

\* color_map of MoonHighlighter.map_color
color_map ==
    [k \in {Yellow, Green, Blue, Red, Magenta} |->
        CASE k = Yellow  -> <<One, One, Zero>>
          [] k = Green   -> <<Zero, One, Zero>>
          [] k = Blue    -> <<Zero, Zero, One>>
          [] k = Red     -> <<One, Zero, Zero>>
          [] k = Magenta -> <<One, Zero, One>>]

\* a fallback that takes abs before the modulo
map_color_AbsFirst(cv) ==
    IF cv \in DOMAIN color_map THEN color_map[cv]
    ELSE <<Over255(Mod256(AbsW(cv))),
           Over255(Abs(ShiftRight(cv, 8)) % 256),
           Over255(Abs(ShiftRight(cv, 16)) % 256)>>

\* a lookup that first reduces the code to its signed 32-bit value
map_color_Normalized(cv) ==
    LET n == <<((cv[1] + 32768) % 65536) - 32768, cv[2]>>
    IN  IF n \in DOMAIN color_map THEN color_map[n]
        ELSE <<Over255(Abs(Mod256(cv))),
               Over255(Abs(ShiftRight(cv, 8) % 256)),
               Over255(Abs(ShiftRight(cv, 16) % 256))>>

\* MoonHighlighter.map_color
map_color(cv) ==
    IF cv \in DOMAIN color_map THEN color_map[cv]
    ELSE <<Over255(Abs(Mod256(cv))),
           Over255(Abs(ShiftRight(cv, 8) % 256)),
           Over255(Abs(ShiftRight(cv, 16) % 256))>>

HexDigits == <<"0", "1", "2", "3", "4", "5", "6", "7", "8", "9",
               "a", "b", "c", "d", "e", "f">>

\* format(n, "02x") for n in 0..255
Hex02(n) ==
    IF n < 16 THEN <<"0", HexDigits[n + 1]>>
    ELSE <<HexDigits[(n \div 16) + 1], HexDigits[(n % 16) + 1]>>

\* color_map of MoonHighlighterSimple.map_color
color_map_simple ==
    [k \in {Yellow, Green, Blue, Red, Magenta} |->
        CASE k = Yellow  -> <<"#", "F", "F", "F", "F", "0", "0">>
          [] k = Green   -> <<"#", "0", "0", "F", "F", "0", "0">>
          [] k = Blue    -> <<"#", "0", "0", "0", "0", "F", "F">>
          [] k = Red     -> <<"#", "F", "F", "0", "0", "0", "0">>
          [] k = Magenta -> <<"#", "F", "F", "0", "0", "F", "F">>]

\* MoonHighlighterSimple.map_color
map_color_simple(cv) ==
    IF cv \in DOMAIN color_map_simple THEN color_map_simple[cv]
    ELSE <<"#">> \o Hex02(Abs(Mod256(cv)))
                \o Hex02(Abs(ShiftRight(cv, 8) % 256))
                \o Hex02(Abs(ShiftRight(cv, 16) % 256))

----------------------------------------------------------------------------
(* Inputs: page contents and database rows *)

Hello  == <<"H", "e", "l", "l", "o">>
foobar == <<"f", "o", "o", "b", "a", "r">>
foobax == <<"f", "o", "o", "b", "a", "x">>
ooba   == <<"o", "o", "b", "a">>
foo    == <<"f", "o", "o">>

hello  == <<"h", "e", "l", "l", "o">>
foobaz == <<"f", "o", "o", "b", "a", "z">>
xfoo   == <<"x", "f", "o", "o">>

PageContents ==
    { [words |-> <<Hello, foobar>>,        broken |-> FALSE],
      [words |-> <<foo, Hello, Hello>>,    broken |-> FALSE],
      [words |-> <<foobax, ooba, foobar>>, broken |-> FALSE],
      [words |-> <<foo, foobar, foobax, ooba, foobax, ooba, foobar>>, broken |-> FALSE],
      [words |-> <<Hello>>,                broken |-> TRUE] }

\* the documents fitz.open can return: at least one page
Documents == SeqsUpTo(PageContents, MaxPages) \ {<<>>}

\* rows (highlightColor, highlightLength, original) of table notes
Rows ==
    { [color |-> Yellow, length |-> 5, text |-> hello],
      [color |-> Red,    length |-> 6, text |-> foobaz],
      [color |-> W(-1),  length |-> 4, text |-> xfoo],
      [color |-> W(255), length |-> 0, text |-> <<>>] }

\* the results cursor.fetchall can return
Batches == SeqsUpTo(Rows, MaxRecords)

----------------------------------------------------------------------------
(* Text Locator *)

fuzzy_threshold == 80
max_fuzzy_results == 5

RECURSIVE Ascending(_)
Ascending(S) ==
    IF S = {} THEN <<>>
    ELSE LET m == CHOOSE x \in S : \A y \in S : x <= y
         IN  <<m>> \o Ascending(S \ {m})

\* the offsets at which needle occurs in word, ignoring case
Offsets(word, needle) ==
    {a \in 1..(Len(word) - Len(needle) + 1) :
        SubSeq(lower(word), a, a + Len(needle) - 1) = lower(needle)}

\* a search in which the empty needle occurs at every offset of every token
search_for_EmptyFound(page, text) ==
    Concat([k \in 1..Len(page.words) |->
               LET offs == Ascending(Offsets(page.words[k], text))
               IN  [n \in 1..Len(offs) |-> <<k, offs[n], offs[n] + Len(text) - 1>>]])

\* fitz.Page.search_for(text, quads=True) on a readable page: one quad for
\* every occurrence, in reading order; an empty needle has no occurrence
search_for(page, text) ==
    IF text = <<>> THEN <<>>
    ELSE Concat([k \in 1..Len(page.words) |->
                    LET offs == Ascending(Offsets(page.words[k], text))
                    IN  [n \in 1..Len(offs) |-> <<k, offs[n], offs[n] + Len(text) - 1>>]])

\* MoonHighlighter.find_text_exact: a raised search gives no quads
find_text_exact(page, text) ==
    IF page.broken THEN <<>> ELSE search_for(page, text)

\* a candidate list left in page order
SortByScore_Unsorted(ws) == ws

\* list.sort(key=score, reverse=True): stable, descending
RECURSIVE SortByScore(_)
SortByScore(ws) ==
    IF ws = <<>> THEN <<>>
    ELSE LET best == Max({ws[k][2] : k \in DOMAIN ws})
             at   == CHOOSE k \in DOMAIN ws :
                        ws[k][2] = best /\ \A j \in 1..(k - 1) : ws[j][2] # best
         IN  <<ws[at]>> \o SortByScore(SubSeq(ws, 1, at - 1) \o SubSeq(ws, at + 1, Len(ws)))

\* fuzz.partial_ratio(text.lower(), word_text.lower()) for every text of Rows
\* and every word of PageContents, evaluated once
Scores ==
    [t \in {r.text : r \in Rows}, w \in UNION {Range(pg.words) : pg \in PageContents} |->
        partial_ratio(lower(t), lower(w))]

\* line 175
score(text, word_text) == Scores[text, word_text]

\* the (slot, score) pairs find_text_fuzzy collects on a page, in page order
similar_words(page, text) ==
    LET scored == [k \in 1..Len(page.words) |-> <<k, score(text, page.words[k])>>]
        Keep(w) == Len(page.words[w[1]]) > 3 /\ w[2] >= fuzzy_threshold
    IN  SelectSeq(scored, Keep)

\* MoonHighlighter.find_text_fuzzy: <<quad, score>> of the best matches
find_text_fuzzy(page, text) ==
    IF page.broken THEN <<>>
    ELSE LET sorted == SortByScore(similar_words(page, text))
             best_matches == SubSeq(sorted, 1,
                                IF Len(sorted) < max_fuzzy_results
                                THEN Len(sorted) ELSE max_fuzzy_results)
         IN  [n \in 1..Len(best_matches) |->
                <<<<best_matches[n][1], 1, Len(page.words[best_matches[n][1]])>>,
                  best_matches[n][2]>>]

----------------------------------------------------------------------------
(* process_highlights: the passes over the pages for one record *)

\* an exact pass that does not stop at the first page with an occurrence
RECURSIVE ExactPass_NoBreak(_, _, _)
ExactPass_NoBreak(d, text, p) ==
    IF p > Len(d) THEN <<>>
    ELSE find_text_exact(d[p], text) \o ExactPass_NoBreak(d, text, p + 1)

\* lines 286-290: the quads of the first page, from p on, with an occurrence
RECURSIVE ExactPass(_, _, _)
ExactPass(d, text, p) ==
    IF p > Len(d) THEN <<>>
    ELSE LET quads == find_text_exact(d[p], text)
         IN  IF quads # <<>> THEN quads ELSE ExactPass(d, text, p + 1)

\* a fuzzy pass that ignores use_fuzzy
fuzzy_pass_enabled_NoFlag(fq, uf) == fq = <<>>

\* line 293: whether the fuzzy pass runs
fuzzy_pass_enabled(fq, uf) == fq = <<>> /\ uf

\* lines 294-302: the first page, from p on, with a fuzzy result; 0 if none
RECURSIVE FuzzyPass(_, _, _)
FuzzyPass(d, text, p) ==
    IF p > Len(d) THEN 0
    ELSE IF find_text_fuzzy(d[p], text) # <<>> THEN p
    ELSE FuzzyPass(d, text, p + 1)

\* MoonHighlighter.extract_page_text over the pages 1..last: a page that
\* raises stores nothing, a cached page keeps its entry
extract_page_text(cache, d, last) ==
    [p \in DOMAIN cache \cup {q \in 1..last : ~d[q].broken} |->
        IF p \in DOMAIN cache THEN cache[p] ELSE d[p].words]

\* line 132 over the pages 1..last: page.get_text() returns for a readable
\* page that has no cache entry
count_text(counts, cache, d, last) ==
    [p \in DOMAIN counts |->
        counts[p] + IF p <= last /\ ~d[p].broken /\ p \notin DOMAIN cache THEN 1 ELSE 0]

\* line 168 over the pages 1..last: page.get_text("words") is called in every
\* find_text_fuzzy that got past line 167
count_words(counts, d, last) ==
    [p \in DOMAIN counts |-> counts[p] + IF p <= last /\ ~d[p].broken THEN 1 ELSE 0]

\* line 307: the found quads that the page's own search returns
page_quads(page, fq, text) ==
    LET hits == Range(search_for(page, text))
        OnPage(q) == q \in hits
    IN  SelectSeq(fq, OnPage)

\* lines 306-321: the page that receives the annotation ("page"), none
\* ("none", the for-else), or the search of line 307 raising ("raise")
RECURSIVE AnnotateScan(_, _, _, _)
AnnotateScan(d, text, fq, p) ==
    IF p > Len(d) THEN [kind |-> "none", page |-> 0, quads |-> <<>>]
    ELSE IF d[p].broken THEN [kind |-> "raise", page |-> p, quads |-> <<>>]
    ELSE LET pq == page_quads(d[p], fq, text)
         IN  IF pq # <<>> THEN [kind |-> "page", page |-> p, quads |-> pq]
             ELSE AnnotateScan(d, text, fq, p + 1)

\* what MoonHighlighter.add_highlight_annotation can do with non-empty quads:
\* succeed, fail before the annotation exists, or fail after it was created
AnnotOutcomes == {"ok", "add_raises", "update_raises"}

\* line 254 without the check: an empty record set goes on to the document
no_highlights_Never(rows) == FALSE

\* line 254: if not highlights
no_highlights(rows) == rows = <<>>

\* a constructor that validates the PDF path only
init_validates_PdfOnly(pe, de) == pe

\* MoonHighlighter.__init__, lines 51-54
init_validates(pe, de) == pe /\ de

\* args.output: absent, the path of the input PDF as it was given, another
\* spelling of a path to the same file (absolute, through a link), or a path
\* to some other file
OutputArgs == {"None", "input", "input_alias", "other"}

\* lines 326-330: the default is <stem>_highlighted<suffix> next to the input
resolve_output_path(arg) == IF arg = "None" THEN "default" ELSE arg

\* the path names the file of the input PDF
names_input(path) == path \in {"input", "input_alias"}

\* line 334, Document.save: a non-incremental save to the name the document
\* was opened under raises ValueError; names are compared as strings
save_refused(path) == path = "input"

\* lines 309-316 without the else branch: a failed annotation counts nowhere
count_annotation_NoElse(counters, success, fuzzy) ==
    IF success
    THEN <<counters[1] + 1, counters[2], IF fuzzy THEN counters[3] + 1 ELSE counters[3]>>
    ELSE counters

\* lines 309-316: <<found, not_found, fuzzy>> after add_highlight_annotation
\* has returned success
count_annotation(counters, success, fuzzy) ==
    IF success
    THEN <<counters[1] + 1, counters[2], IF fuzzy THEN counters[3] + 1 ELSE counters[3]>>
    ELSE <<counters[1], counters[2] + 1, counters[3]>>

\* a run that never calls its callback
notify_Never(log, cb, current, total) == log

\* lines 273-274 and 348-349: if progress_callback: progress_callback(...)
notify(log, cb, current, total) ==
    IF cb THEN Append(log, <<current, total>>) ELSE log

\* a save whose failure still returns the output path
save_result_Always(ok) == "output_path"

\* lines 333-339 and 351: the value process_highlights returns after saving
save_result(ok) == IF ok THEN "output_path" ELSE ""

\* main, lines 621-634
exit_status(res) == IF res = "raised" THEN 1 ELSE IF res # "" THEN 0 ELSE 1

----------------------------------------------------------------------------
(* The batch run: main and MoonHighlighter.process_highlights *)

\* everything but the entry point and the callback
InitRest ==
    /\ use_fuzzy = TRUE
    /\ pdf_exists = FALSE
    /\ db_exists = FALSE
    /\ highlights = <<>>
    /\ doc = <<>>
    /\ conn_state = "none"
    /\ doc_state = "none"
    /\ i = 0
    /\ found_quads = <<>>
    /\ fuzzy_used = FALSE
    /\ found_highlights = 0
    /\ not_found_highlights = 0
    /\ fuzzy_highlights = 0
    /\ annots = <<>>
    /\ text_cache = <<>>
    /\ result = "none"
    /\ output_saved = FALSE
    /\ exit_code = -1
    /\ query_executed = FALSE
    /\ fuzzy_invoked = {}
    /\ processed = 0
    /\ annot_failures = 0
    /\ db_outcome = "none"
    /\ output_path = "none"
    /\ input_written = FALSE
    /\ progress = <<>>
    /\ text_extractions = <<>>
    /\ word_extractions = <<>>
    /\ fuzzy_page = 0
    /\ outcomes = <<>>
    /\ fields = "empty"
    /\ threads = <<>>
    /\ highlighter = 0
    /\ log_writers = {}
    /\ progress_writer = 0
    /\ color_value = W(0)
    /\ rgb = <<>>
    /\ hex = <<>>
    /\ prev_call = <<>>

\* main is entered; the batch run passes no progress callback (line 618)
Init ==
    /\ pc = "start"
    /\ progress_callback = FALSE
    /\ InitRest

\* main, lines 605-609: a required argument is missing
MainUsage ==
    /\ pc = "start"
    /\ pc' = "exit"
    /\ exit_code' = 1
    /\ UNCHANGED <<use_fuzzy, pdf_exists, db_exists, highlights, doc, conn_state,
                   doc_state, i, found_quads, fuzzy_used, found_highlights,
                   not_found_highlights, fuzzy_highlights, annots, text_cache,
                   result, output_saved, query_executed, fuzzy_invoked, processed,
                   annot_failures>>
    /\ UNCHANGED <<db_outcome, output_path, input_written, progress_callback,
                   progress, text_extractions, word_extractions, fuzzy_page,
                   outcomes>>
    /\ UNCHANGED colorVars
    /\ UNCHANGED guiVars

\* main, lines 611-619 and 629-631: construct the highlighter
MainConstruct ==
    /\ pc = "start"
    /\ \E pe \in BOOLEAN, de \in BOOLEAN, uf \in BOOLEAN :
        /\ pdf_exists' = pe
        /\ db_exists' = de
        /\ use_fuzzy' = uf
        /\ IF init_validates(pe, de)
           THEN pc' = "query" /\ exit_code' = exit_code
           ELSE pc' = "exit" /\ exit_code' = 1
    /\ UNCHANGED <<highlights, doc, conn_state, doc_state, i, found_quads,
                   fuzzy_used, found_highlights, not_found_highlights,
                   fuzzy_highlights, annots, text_cache, result, output_saved,
                   query_executed, fuzzy_invoked, processed, annot_failures>>
    /\ UNCHANGED <<db_outcome, output_path, input_written, progress_callback,
                   progress, text_extractions, word_extractions, fuzzy_page,
                   outcomes>>
    /\ UNCHANGED colorVars
    /\ UNCHANGED guiVars

\* get_highlights_from_db and lines 251-256.  A database file that does not
\* exist is created empty by sqlite3.connect, and the query on it fails.
GetHighlights ==
    /\ pc = "query"
    /\ \E outcome \in (IF db_exists THEN {"connect_fails", "execute_fails", "rows"}
                                    ELSE {"execute_fails"}) :
        \E rows \in Batches :
            /\ outcome # "rows" => rows = <<>>
            /\ highlights' = rows
            /\ conn_state' = CASE outcome = "connect_fails" -> "none"
                               [] outcome = "execute_fails" -> "open"
                               [] outcome = "rows"          -> "closed"
            /\ query_executed' = (outcome # "connect_fails")
            /\ db_outcome' = outcome
            /\ IF no_highlights(rows)
               THEN pc' = "returned" /\ result' = ""
               ELSE pc' = "open" /\ result' = result
    /\ UNCHANGED <<use_fuzzy, pdf_exists, db_exists, doc, doc_state, i,
                   found_quads, fuzzy_used, found_highlights, not_found_highlights,
                   fuzzy_highlights, annots, text_cache, output_saved, exit_code,
                   fuzzy_invoked, processed, annot_failures>>
    /\ UNCHANGED <<output_path, input_written, progress_callback, progress,
                   text_extractions, word_extractions, fuzzy_page, outcomes>>
    /\ UNCHANGED colorVars
    /\ UNCHANGED guiVars

\* lines 258-263: fitz.open raises
OpenFails ==
    /\ pc = "open"
    /\ pc' = "returned"
    /\ result' = ""
    /\ UNCHANGED <<use_fuzzy, pdf_exists, db_exists, highlights, doc, conn_state,
                   doc_state, i, found_quads, fuzzy_used, found_highlights,
                   not_found_highlights, fuzzy_highlights, annots, text_cache,
                   output_saved, exit_code, query_executed, fuzzy_invoked,
                   processed, annot_failures>>
    /\ UNCHANGED <<db_outcome, output_path, input_written, progress_callback,
                   progress, text_extractions, word_extractions, fuzzy_page,
                   outcomes>>
    /\ UNCHANGED colorVars
    /\ UNCHANGED guiVars

\* lines 258-272: the document opens, the counters start at zero
OpenDoc ==
    /\ pc = "open"
    /\ \E d \in Documents :
        /\ doc' = d
        /\ text_extractions' = [p \in 1..Len(d) |-> 0]
        /\ word_extractions' = [p \in 1..Len(d) |-> 0]
    /\ doc_state' = "open"
    /\ found_highlights' = 0
    /\ not_found_highlights' = 0
    /\ fuzzy_highlights' = 0
    /\ i' = 1
    /\ pc' = IF highlights = <<>> THEN "save" ELSE "exact"
    /\ UNCHANGED <<use_fuzzy, pdf_exists, db_exists, highlights, conn_state,
                   found_quads, fuzzy_used, annots, text_cache, result,
                   output_saved, exit_code, query_executed, fuzzy_invoked,
                   processed, annot_failures>>
    /\ UNCHANGED <<db_outcome, output_path, input_written, progress_callback,
                   progress, fuzzy_page, outcomes>>
    /\ UNCHANGED colorVars
    /\ UNCHANGED guiVars

\* lines 272-290: start of a record and its exact pass
ExactStep ==
    /\ pc = "exact"
    /\ found_quads' = ExactPass(doc, highlights[i].text, 1)
    /\ fuzzy_used' = FALSE
    /\ fuzzy_page' = 0
    /\ progress' = notify(progress, progress_callback, i - 1, Len(highlights))
    /\ pc' = IF fuzzy_pass_enabled(found_quads', use_fuzzy) THEN "fuzzy" ELSE "annotate"
    /\ UNCHANGED <<use_fuzzy, pdf_exists, db_exists, highlights, doc, conn_state,
                   doc_state, i, found_highlights, not_found_highlights,
                   fuzzy_highlights, annots, text_cache, result, output_saved,
                   exit_code, query_executed, fuzzy_invoked, processed,
                   annot_failures>>
    /\ UNCHANGED <<db_outcome, output_path, input_written, progress_callback,
                   text_extractions, word_extractions, outcomes>>
    /\ UNCHANGED colorVars
    /\ UNCHANGED guiVars

\* lines 293-302: the fuzzy pass of a record
FuzzyStep ==
    /\ pc = "fuzzy"
    /\ fuzzy_page' = FuzzyPass(doc, highlights[i].text, 1)
    /\ LET text == highlights[i].text
           at   == fuzzy_page'
           last == IF at = 0 THEN Len(doc) ELSE at
       IN  /\ fuzzy_invoked' = fuzzy_invoked \cup {i}
           /\ text_cache' = extract_page_text(text_cache, doc, last)
           /\ text_extractions' = count_text(text_extractions, text_cache, doc, last)
           /\ word_extractions' = count_words(word_extractions, doc, last)
           /\ IF at # 0
              THEN /\ found_quads' = <<find_text_fuzzy(doc[at], text)[1][1]>>
                   /\ fuzzy_used' = TRUE
              ELSE UNCHANGED <<found_quads, fuzzy_used>>
    /\ pc' = "annotate"
    /\ UNCHANGED <<use_fuzzy, pdf_exists, db_exists, highlights, doc, conn_state,
                   doc_state, i, found_highlights, not_found_highlights,
                   fuzzy_highlights, annots, result, output_saved, exit_code,
                   query_executed, processed, annot_failures>>
    /\ UNCHANGED <<db_outcome, output_path, input_written, progress_callback,
                   progress, outcomes>>
    /\ UNCHANGED colorVars
    /\ UNCHANGED guiVars

\* the end of a loop iteration
NextRecord ==
    /\ processed' = processed + 1
    /\ i' = i + 1
    /\ pc' = IF i = Len(highlights) THEN "save" ELSE "exact"

\* lines 304-324 with add_highlight_annotation: place the highlight and count
AnnotateStep ==
    /\ pc = "annotate"
    /\ LET rec  == highlights[i]
           scan == IF found_quads # <<>>
                   THEN AnnotateScan(doc, rec.text, found_quads, 1)
                   ELSE [kind |-> "none", page |-> 0, quads |-> <<>>]
       IN  CASE scan.kind = "raise" ->
                    /\ result' = "raised"
                    /\ pc' = "returned"
                    /\ UNCHANGED <<i, processed, found_highlights, not_found_highlights,
                                   fuzzy_highlights, annots, annot_failures, outcomes>>
             [] scan.kind = "none" ->
                    /\ not_found_highlights' = not_found_highlights + 1
                    /\ outcomes' = Append(outcomes, "not_found")
                    /\ NextRecord
                    /\ UNCHANGED <<result, found_highlights, fuzzy_highlights, annots,
                                   annot_failures>>
             [] scan.kind = "page" ->
                    \E outcome \in AnnotOutcomes :
                        /\ annots' =
                             IF outcome = "add_raises" THEN annots
                             ELSE Append(annots,
                                    [rec |-> i, page |-> scan.page, quads |-> scan.quads,
                                     color |-> IF outcome = "ok" THEN map_color(rec.color)
                                               ELSE <<>>,
                                     content |-> Prefix(rec.text, 100)])
                        /\ LET counted == count_annotation(
                                              <<found_highlights, not_found_highlights,
                                                fuzzy_highlights>>,
                                              outcome = "ok", fuzzy_used)
                           IN  /\ found_highlights' = counted[1]
                               /\ not_found_highlights' = counted[2]
                               /\ fuzzy_highlights' = counted[3]
                        /\ annot_failures' = IF outcome = "ok" THEN annot_failures
                                             ELSE annot_failures + 1
                        /\ outcomes' = Append(outcomes, IF outcome = "ok" THEN "found"
                                                         ELSE "not_found")
                        /\ NextRecord
                        /\ UNCHANGED result
    /\ UNCHANGED <<use_fuzzy, pdf_exists, db_exists, highlights, doc, conn_state,
                   doc_state, found_quads, fuzzy_used, text_cache, output_saved,
                   exit_code, query_executed, fuzzy_invoked>>
    /\ UNCHANGED <<db_outcome, output_path, input_written, progress_callback,
                   progress, text_extractions, word_extractions, fuzzy_page>>
    /\ UNCHANGED colorVars
    /\ UNCHANGED guiVars

\* lines 326-351: save, close, report
Save ==
    /\ pc = "save"
    /\ \E arg \in OutputArgs, opened \in BOOLEAN, ok \in BOOLEAN :
        LET path == resolve_output_path(arg)
        IN  /\ ok => opened
            /\ save_refused(path) => ~opened
            /\ output_path' = path
            /\ input_written' = (opened /\ names_input(path))
            /\ output_saved' = ok
            /\ doc_state' = IF ok THEN "closed" ELSE doc_state
            /\ result' = save_result(ok)
            /\ progress' = IF ok THEN notify(progress, progress_callback,
                                             Len(highlights), Len(highlights))
                          ELSE progress
    /\ pc' = "returned"
    /\ UNCHANGED <<use_fuzzy, pdf_exists, db_exists, highlights, doc, conn_state,
                   i, found_quads, fuzzy_used, found_highlights,
                   not_found_highlights, fuzzy_highlights, annots, text_cache,
                   exit_code, query_executed, fuzzy_invoked, processed,
                   annot_failures>>
    /\ UNCHANGED <<db_outcome, progress_callback, text_extractions,
                   word_extractions, fuzzy_page, outcomes>>
    /\ UNCHANGED colorVars
    /\ UNCHANGED guiVars

\* main, lines 621-634: the exit status
MainExit ==
    /\ pc = "returned"
    /\ exit_code' = exit_status(result)
    /\ pc' = "exit"
    /\ UNCHANGED <<use_fuzzy, pdf_exists, db_exists, highlights, doc, conn_state,
                   doc_state, i, found_quads, fuzzy_used, found_highlights,
                   not_found_highlights, fuzzy_highlights, annots, text_cache,
                   result, output_saved, query_executed, fuzzy_invoked, processed,
                   annot_failures>>
    /\ UNCHANGED <<db_outcome, output_path, input_written, progress_callback,
                   progress, text_extractions, word_extractions, fuzzy_page,
                   outcomes>>
    /\ UNCHANGED colorVars
    /\ UNCHANGED guiVars

Next ==
    \/ MainUsage
    \/ MainConstruct
    \/ GetHighlights
    \/ OpenFails
    \/ OpenDoc
    \/ ExactStep
    \/ FuzzyStep
    \/ AnnotateStep
    \/ Save
    \/ MainExit

Spec == Init /\ [][Next]_vars

----------------------------------------------------------------------------
(* One run started from the window: MoonHighlighterGUI.process_highlights  *)
(* and the worker _process_highlights_thread, which passes the callback.   *)

\* the window is up and idle; its worker passes self.progress_callback
InitGui ==
    /\ pc = "gui_idle"
    /\ progress_callback = TRUE
    /\ InitRest

\* MoonHighlighterGUI.process_highlights, lines 498-511: the required fields
\* are filled, the log is cleared and the worker thread is started
GuiProcess ==
    /\ pc = "gui_idle"
    /\ pc' = "gui_thread"
    /\ UNCHANGED <<use_fuzzy, pdf_exists, db_exists, highlights, doc, conn_state,
                   doc_state, i, found_quads, fuzzy_used, found_highlights,
                   not_found_highlights, fuzzy_highlights, annots, text_cache,
                   result, output_saved, exit_code, query_executed, fuzzy_invoked,
                   processed, annot_failures>>
    /\ UNCHANGED <<db_outcome, output_path, input_written, progress_callback,
                   progress, text_extractions, word_extractions, fuzzy_page,
                   outcomes>>
    /\ UNCHANGED colorVars
    /\ UNCHANGED guiVars

\* _process_highlights_thread, lines 515-527 and 538-540: construct the
\* highlighter; FileNotFoundError is caught and shown
GuiThreadConstruct ==
    /\ pc = "gui_thread"
    /\ \E pe \in BOOLEAN, de \in BOOLEAN, uf \in BOOLEAN :
        /\ pdf_exists' = pe
        /\ db_exists' = de
        /\ use_fuzzy' = uf
        /\ pc' = IF init_validates(pe, de) THEN "query" ELSE "gui_done"
    /\ UNCHANGED <<highlights, doc, conn_state, doc_state, i, found_quads,
                   fuzzy_used, found_highlights, not_found_highlights,
                   fuzzy_highlights, annots, text_cache, result, output_saved,
                   exit_code, query_executed, fuzzy_invoked, processed,
                   annot_failures>>
    /\ UNCHANGED <<db_outcome, output_path, input_written, progress_callback,
                   progress, text_extractions, word_extractions, fuzzy_page,
                   outcomes>>
    /\ UNCHANGED colorVars
    /\ UNCHANGED guiVars

\* _process_highlights_thread, lines 529-540: the outcome is logged and shown
GuiThreadDone ==
    /\ pc = "returned"
    /\ pc' = "gui_done"
    /\ UNCHANGED <<use_fuzzy, pdf_exists, db_exists, highlights, doc, conn_state,
                   doc_state, i, found_quads, fuzzy_used, found_highlights,
                   not_found_highlights, fuzzy_highlights, annots, text_cache,
                   result, output_saved, exit_code, query_executed, fuzzy_invoked,
                   processed, annot_failures>>
    /\ UNCHANGED <<db_outcome, output_path, input_written, progress_callback,
                   progress, text_extractions, word_extractions, fuzzy_page,
                   outcomes>>
    /\ UNCHANGED colorVars
    /\ UNCHANGED guiVars

NextGuiRun ==
    \/ GuiProcess
    \/ GuiThreadConstruct
    \/ GetHighlights
    \/ OpenFails
    \/ OpenDoc
    \/ ExactStep
    \/ FuzzyStep
    \/ AnnotateStep
    \/ Save
    \/ GuiThreadDone

SpecGuiRun == InitGui /\ [][NextGuiRun]_vars

----------------------------------------------------------------------------
(* The window and its threads: the UI thread handles the user's actions,   *)
(* every press of Process starts a worker thread.  A worker is a record    *)
(* [at, inst, left]: its position, the MoonHighlighter instance it runs    *)
(* (the thread that constructed it) and the callback calls it still makes. *)

Threads == DOMAIN threads

\* browse_pdf, browse_db and typing: the required fields get values
GuiEdit ==
    /\ fields = "empty"
    /\ fields' = "filled"
    /\ UNCHANGED <<threads, highlighter, log_writers, progress_writer>>
    /\ UNCHANGED runVars
    /\ UNCHANGED colorVars

\* MoonHighlighterGUI.clear_fields, lines 489-496, on the UI thread
GuiClear ==
    /\ fields = "filled" \/ log_writers # {} \/ progress_writer # 0
    /\ fields' = "empty"
    /\ log_writers' = {}
    /\ progress_writer' = 0
    /\ UNCHANGED <<threads, highlighter>>
    /\ UNCHANGED runVars
    /\ UNCHANGED colorVars

\* MoonHighlighterGUI.process_highlights, lines 498-511, on the UI thread:
\* with the fields filled it clears the log and starts a thread, whatever
\* the threads started before are doing
GuiPress ==
    /\ fields = "filled"
    /\ Len(threads) < MaxThreads
    /\ log_writers' = {}
    /\ threads' = Append(threads, [at |-> "start", inst |-> 0, left |-> 0])
    /\ UNCHANGED <<fields, highlighter, progress_writer>>
    /\ UNCHANGED runVars
    /\ UNCHANGED colorVars

\* _process_highlights_thread, lines 515-520 and 538-540: the worker reads the
\* form variables and stores the instance it constructs in self.highlighter,
\* or the constructor raises and the worker logs the error
WorkerConstruct(t) ==
    /\ threads[t].at = "start"
    /\ \E constructed \in BOOLEAN :
        IF constructed
        THEN /\ highlighter' = t
             /\ threads' = [threads EXCEPT ![t].at = "constructed"]
             /\ UNCHANGED log_writers
        ELSE /\ log_writers' = log_writers \cup {t}
             /\ threads' = [threads EXCEPT ![t].at = "done"]
             /\ UNCHANGED highlighter
    /\ UNCHANGED <<fields, progress_writer>>
    /\ UNCHANGED runVars
    /\ UNCHANGED colorVars

\* lines 523-527: the worker reads self.highlighter again and enters
\* process_highlights of the instance it finds there
WorkerCall(t) ==
    /\ threads[t].at = "constructed"
    /\ \E n \in 0..(MaxRecords + 1) :
        threads' = [threads EXCEPT ![t].at = "running", ![t].inst = highlighter,
                                   ![t].left = n]
    /\ UNCHANGED <<fields, highlighter, log_writers, progress_writer>>
    /\ UNCHANGED runVars
    /\ UNCHANGED colorVars

\* lines 273-274 and 348-349 calling progress_callback, lines 482-487: the
\* worker sets progress_var and writes to log_text
WorkerProgress(t) ==
    /\ threads[t].at = "running"
    /\ threads[t].left > 0
    /\ progress_writer' = t
    /\ log_writers' = log_writers \cup {t}
    /\ threads' = [threads EXCEPT ![t].left = threads[t].left - 1]
    /\ UNCHANGED <<fields, highlighter>>
    /\ UNCHANGED runVars
    /\ UNCHANGED colorVars

\* lines 529-540: process_highlights has returned or raised; the worker
\* writes the outcome to log_text and ends
WorkerReport(t) ==
    /\ threads[t].at = "running"
    /\ threads[t].left = 0
    /\ log_writers' = log_writers \cup {t}
    /\ threads' = [threads EXCEPT ![t].at = "done"]
    /\ UNCHANGED <<fields, highlighter, progress_writer>>
    /\ UNCHANGED runVars
    /\ UNCHANGED colorVars

NextGui ==
    \/ GuiEdit
    \/ GuiClear
    \/ GuiPress
    \/ \E t \in Threads : WorkerConstruct(t)
    \/ \E t \in Threads : WorkerCall(t)
    \/ \E t \in Threads : WorkerProgress(t)
    \/ \E t \in Threads : WorkerReport(t)

SpecGui == InitGui /\ [][NextGui]_vars

----------------------------------------------------------------------------
(* map_color on its own: any sequence of calls *)

TableKeys == DOMAIN color_map

\* signed 32-bit codes around zero, at the byte boundaries and at the ends of
\* the range, the table keys, and the integers equal to a key modulo 2^32
ColorCodes ==
    TableKeys
      \cup {Plus2p32(k, 1) : k \in TableKeys} \cup {Plus2p32(k, -1) : k \in TableKeys}
      \cup {W(n) : n \in -SmallCode..SmallCode}
      \cup {W(sg * m) : sg \in {-1, 1},
                        m \in {255, 256, 257, 65535, 65536, 65537, 16777215, 16777216,
                               2147483647}}
      \cup {W(-2147483647 - 1)}

MapColorCall ==
    /\ \E cv \in ColorCodes :
        /\ color_value' = cv
        /\ rgb' = map_color(cv)
        /\ hex' = map_color_simple(cv)
    /\ prev_call' = IF rgb = <<>> THEN <<>> ELSE <<color_value, rgb, hex>>
    /\ UNCHANGED runVars
    /\ UNCHANGED guiVars

SpecColor == Init /\ [][MapColorCall]_vars

----------------------------------------------------------------------------
(* Properties *)

Finished == pc = "exit"

\* the run saved its output and printed the final report
Reported == Finished /\ result = "output_path"

Records == 1..Len(highlights)

Pages == 1..Len(doc)

\* the text has an occurrence on the page
Occurs(page, text) == search_for(page, text) # <<>>

\* the token slots of the page with 4 or more characters scoring 80 or more
Candidates(page, text) ==
    {k \in 1..Len(page.words) :
        Len(page.words[k]) >= 4 /\ partial_ratio(lower(text), lower(page.words[k])) >= 80}

\* no page has an exact occurrence, and some page has a qualifying token
FuzzyOnly(text) ==
    /\ \A p \in Pages : ~Occurs(doc[p], text)
    /\ \E p \in Pages : ~doc[p].broken /\ Candidates(doc[p], text) # {}

\* C1: with use_fuzzy, every record that has no exact occurrence on any page
\* but a token of 4 or more characters scoring >= 80 on some page gets a
\* highlight annotation on such a token, and the final report counts these
\* records as fuzzy finds.
C1_FuzzyFindAnnotatedAndCounted ==
    (Reported /\ use_fuzzy) =>
        /\ \A n \in Records : FuzzyOnly(highlights[n].text) =>
              \E a \in DOMAIN annots :
                  /\ annots[a].rec = n
                  /\ \E k \in Candidates(doc[annots[a].page], highlights[n].text) :
                        annots[a].quads = <<<<k, 1, Len(doc[annots[a].page].words[k])>>>>
        /\ fuzzy_highlights = Cardinality({n \in Records : FuzzyOnly(highlights[n].text)})

\* a record is located by the exact pass or, when enabled, by the fuzzy pass
Locatable(text) ==
    \/ \E p \in Pages : find_text_exact(doc[p], text) # <<>>
    \/ use_fuzzy /\ \E p \in Pages : find_text_fuzzy(doc[p], text) # <<>>

\* C2: a run in which no library call failed processes all N records and
\* reports not_found_highlights = K, the number of records that neither the
\* exact pass nor, when enabled, the fuzzy pass can locate on any page.
C2_AllProcessedNotFoundIsK ==
    (Reported /\ annot_failures = 0) =>
        /\ processed = Len(highlights)
        /\ not_found_highlights =
              Cardinality({n \in Records : ~Locatable(highlights[n].text)})

\* C3: a record gets at most one annotation; when some page has an exact
\* occurrence of its text, the annotation is on the lowest such page and its
\* quads are exactly the occurrences on that page, in order, each once.
C3_OneAnnotationOnFirstPage ==
    /\ \A a, b \in DOMAIN annots : annots[a].rec = annots[b].rec => a = b
    /\ \A a \in DOMAIN annots :
          LET text == highlights[annots[a].rec].text
              with == {p \in Pages : Occurs(doc[p], text)}
          IN  with # {} =>
                /\ annots[a].page \in with
                /\ \A p \in with : annots[a].page <= p
                /\ annots[a].quads = search_for(doc[annots[a].page], text)

\* C3 witness: an annotation with two occurrences, and a later page that has
\* the text too
C3_Witness ==
    \E a \in DOMAIN annots :
        /\ Len(annots[a].quads) = 2
        /\ \E p \in Pages : p > annots[a].page /\ Occurs(doc[p], highlights[annots[a].rec].text)

\* C4: find_text_fuzzy is called for a record only when use_fuzzy holds and no
\* page gave the exact pass an occurrence; without use_fuzzy nothing is
\* located by or counted as a fuzzy match.
C4_FuzzyOnlyWhenEnabledAndExactFailed ==
    /\ \A n \in fuzzy_invoked :
          /\ use_fuzzy
          /\ \A p \in Pages : find_text_exact(doc[p], highlights[n].text) = <<>>
    /\ fuzzy_used => use_fuzzy
    /\ ~use_fuzzy => fuzzy_invoked = {} /\ ~fuzzy_used /\ fuzzy_highlights = 0

\* C4 witness: a finished run without fuzzy search over a record that only
\* the fuzzy pass could have located
C4_Witness ==
    /\ Reported
    /\ ~use_fuzzy
    /\ \E n \in Records : FuzzyOnly(highlights[n].text)

\* C5: the batch run exits with status 0 exactly when it saved an output file.
C5_ExitZeroIffOutputSaved ==
    /\ Finished => exit_code \in {0, 1} /\ (exit_code = 0 <=> output_saved)
    /\ ~Finished => exit_code = -1

\* C5 witness: the run saved its output and exited 0
C5_Witness == Finished /\ output_saved /\ exit_code = 0

\* C6: when the run has returned, no database connection and no document
\* handle it opened is still open.
C6_HandlesClosedOnReturn ==
    pc \in {"returned", "exit"} => conn_state # "open" /\ doc_state # "open"

\* C7: a failure in the locate-or-annotate step of one record does not leave
\* process_highlights: once the document is open every record is processed
\* and nothing is raised to the caller.
C7_RecordFailureStaysLocal ==
    (pc \in {"returned", "exit"} /\ doc_state # "none") =>
        /\ result # "raised"
        /\ processed = Len(highlights)
        /\ found_highlights + not_found_highlights = Len(highlights)

\* the bytes 0, 1 and 2 of the two's-complement representation of the code
LowBytes(cv) == <<cv[2] % 256, cv[2] \div 256, cv[1] % 256>>

\* the channel numerators the claim C8 states: abs before the modulo
AbsFirstBytes(cv) ==
    <<Mod256(AbsW(cv)), Abs(ShiftRight(cv, 8)) % 256, Abs(ShiftRight(cv, 16)) % 256>>

Called == rgb # <<>>

\* C8 as stated: for every signed 32-bit code outside the table the channels
\* are (abs(code) mod 256)/255, (abs(code >> 8) mod 256)/255 and
\* (abs(code >> 16) mod 256)/255.
C8_AbsBeforeModulo ==
    (Called /\ IsInt32(color_value) /\ color_value \notin TableKeys) =>
        rgb = [c \in 1..3 |-> Over255(AbsFirstBytes(color_value)[c])]

\* C8 amended: for every signed 32-bit code outside the table the channels are
\* the three low bytes of the code's two's-complement representation over 255
\* (the modulo is taken of the signed value and is never negative, so abs
\* changes nothing); for codes >= 0 this is the abs-before-modulo value.
C8_ChannelsAreLowBytes ==
    (Called /\ IsInt32(color_value) /\ color_value \notin TableKeys) =>
        /\ rgb = [c \in 1..3 |-> Over255(LowBytes(color_value)[c])]
        /\ hex = <<"#">> \o Hex02(LowBytes(color_value)[1])
                         \o Hex02(LowBytes(color_value)[2])
                         \o Hex02(LowBytes(color_value)[3])
        /\ ~IsNegative(color_value) => LowBytes(color_value) = AbsFirstBytes(color_value)

\* C8 witness: a negative code outside the table whose low bytes differ from
\* those of its absolute value
C8_Witness ==
    /\ Called
    /\ IsInt32(color_value)
    /\ IsNegative(color_value)
    /\ color_value \notin TableKeys
    /\ LowBytes(color_value) # AbsFirstBytes(color_value)

\* C9: the five table keys give their fixed colors, whatever the fallback
\* would give; an integer that equals a key only modulo 2^32 is not a table
\* hit; every result is a triple of channels in [0, 1]; and a call with the
\* same code as the call before it returns the same color.
C9_TableExactAndPure ==
    Called =>
        /\ color_value = W(1996532479)  => rgb = <<One, One, Zero>>
        /\ color_value = W(-1996554240) => rgb = <<Zero, One, Zero>>
        /\ color_value = W(2013265664)  => rgb = <<Zero, Zero, One>>
        /\ color_value = W(-256)        => rgb = <<One, Zero, Zero>>
        /\ color_value = W(16711680)    => rgb = <<One, Zero, One>>
        /\ color_value = W(1996532479)  => hex = <<"#", "F", "F", "F", "F", "0", "0">>
        /\ color_value = W(-1996554240) => hex = <<"#", "0", "0", "F", "F", "0", "0">>
        /\ color_value = W(2013265664)  => hex = <<"#", "0", "0", "0", "0", "F", "F">>
        /\ color_value = W(-256)        => hex = <<"#", "F", "F", "0", "0", "0", "0">>
        /\ color_value = W(16711680)    => hex = <<"#", "F", "F", "0", "0", "F", "F">>
        /\ \A k \in {W(1996532479), W(-1996554240), W(2013265664), W(-256), W(16711680)} :
              color_value \in {Plus2p32(k, 1), Plus2p32(k, -1)} =>
                  rgb = [c \in 1..3 |-> Over255(LowBytes(color_value)[c])]
        /\ Len(rgb) = 3
        /\ \A c \in 1..3 : 0 <= rgb[c][1] /\ rgb[c][1] <= rgb[c][2]
        /\ (prev_call # <<>> /\ prev_call[1] = color_value) =>
              prev_call[2] = rgb /\ prev_call[3] = hex

\* C9 witness: the key -256 looked up right after the integer 2^32 - 256
C9_Witness ==
    /\ Called
    /\ color_value = W(-256)
    /\ prev_call # <<>>
    /\ prev_call[1] = Plus2p32(W(-256), 1)
    /\ prev_call[2] # rgb

\* C10: when the PDF file or the database file does not exist, the run ends
\* at construction: no query is executed, no connection or document is
\* opened, no output is written, and the exit status is 1.
C10_MissingFileStopsBeforeProcessing ==
    (pc # "start" /\ ~(pdf_exists /\ db_exists)) =>
        /\ Finished
        /\ exit_code = 1
        /\ ~query_executed
        /\ conn_state = "none"
        /\ doc_state = "none"
        /\ ~output_saved
        /\ highlights = <<>>

\* C10 witness: the PDF exists, the database does not, and the run has ended
C10_Witness == Finished /\ pdf_exists /\ ~db_exists

\* the query of get_highlights_from_db raised sqlite3.Error
QueryFailed == db_outcome \in {"connect_fails", "execute_fails"}

\* C11: when the database query fails nothing is raised to the caller:
\* the record set is empty, process_highlights returns "" without opening
\* the document and without writing a file, and the batch run exits with 1.
C11_QueryFailureGivesNoOutput ==
    QueryFailed =>
        /\ highlights = <<>>
        /\ pc \in {"returned", "exit"}
        /\ result = ""
        /\ doc_state = "none"
        /\ doc = <<>>
        /\ ~output_saved
        /\ ~input_written
        /\ Finished => exit_code = 1

\* C11 witness: the query raised on an existing database and the run exited
C11_Witness == Finished /\ db_exists /\ db_outcome = "execute_fails" /\ exit_code = 1

\* C12: whatever output path is chosen (the default, or an explicit path,
\* also one that names the input), the input PDF file is never written, and
\* the annotated document is saved only to a file other than the input.
C12_InputNeverWritten ==
    /\ ~input_written
    /\ output_saved => ~names_input(output_path)

\* C13: a record whose text is empty is never located: on every page the
\* exact search and the fuzzy search give nothing for it, with and without
\* use_fuzzy its passes end with no quads, it gets no annotation, and it is
\* counted as not found.
C13_EmptyTextNeverLocated ==
    \A n \in Records : highlights[n].text = <<>> =>
        /\ \A p \in Pages :
              /\ find_text_exact(doc[p], highlights[n].text) = <<>>
              /\ find_text_fuzzy(doc[p], highlights[n].text) = <<>>
        /\ (i = n /\ pc \in {"fuzzy", "annotate"}) => found_quads = <<>> /\ ~fuzzy_used
        /\ \A a \in DOMAIN annots : annots[a].rec # n
        /\ n <= Len(outcomes) => outcomes[n] = "not_found"

\* C13 witness: a reported run with fuzzy search whose first record has the
\* empty text and whose pages have tokens
C13_Witness ==
    /\ Reported
    /\ use_fuzzy
    /\ highlights[1].text = <<>>
    /\ 1 \in fuzzy_invoked
    /\ \A p \in Pages : ~doc[p].broken /\ doc[p].words # <<>>
    /\ not_found_highlights >= 1

\* the last pair passed to the callback
LastProgress == progress[Len(progress)]

\* C14 as stated: with a callback, once the i-th record's step has finished
\* a notification that accounts for it has been made; the reported indexes
\* do not decrease and do not exceed N, every call carries the total N, and
\* a run that saved its output has reported N of N.
C14_NotifiedAfterEachRecord ==
    progress_callback =>
        /\ processed >= 1 => progress # <<>> /\ LastProgress[1] >= processed
        /\ \A k \in DOMAIN progress :
              progress[k][2] = Len(highlights) /\ progress[k][1] <= Len(highlights)
        /\ \A k \in 1..(Len(progress) - 1) : progress[k][1] <= progress[k + 1][1]
        /\ output_saved => LastProgress = <<Len(highlights), Len(highlights)>>

\* C14 amended: the callback is called at the start of each record's
\* iteration, before its locate and annotate step, with the zero-based index
\* of the record (the number of records already processed) and the total N.
\* So the k-th call carries k - 1 of N, the indexes increase strictly and do
\* not exceed N, when the i-th record's step has finished the last call
\* carries i - 1, and N of N is reported exactly when the output was saved.
C14_NotifiedBeforeEachRecord ==
    progress_callback =>
        /\ progress = [k \in 1..Len(progress) |-> <<k - 1, Len(highlights)>>]
        /\ Len(progress) <= Len(highlights) + 1
        /\ pc \in {"fuzzy", "annotate"} => Len(progress) = processed + 1
        /\ pc \in {"exact", "save"} => Len(progress) = processed
        /\ output_saved <=> (progress # <<>> /\ LastProgress[1] = Len(highlights))

\* C14 witness: a run over two records that saved its output: the calls were
\* 0 of 2, 1 of 2 and, after the save, 2 of 2
C14_Witness ==
    /\ progress_callback
    /\ output_saved
    /\ processed = 2
    /\ progress = <<<<0, 2>>, <<1, 2>>, <<2, 2>>>>

\* C15: within a run the text and the word list of a page are extracted at
\* most once each, later fuzzy lookups on the page being served from the
\* cache, and a cache entry is the text of its page and never changes.
C15_PageExtractedAtMostOnce ==
    /\ \A p \in DOMAIN text_extractions : text_extractions[p] <= 1
    /\ \A p \in DOMAIN word_extractions : word_extractions[p] <= 1
    /\ \A p \in DOMAIN text_cache : text_cache[p] = doc[p].words

\* the score of the token in slot k of the page against the text, from the
\* table of partial_ratio values
TokenScore(page, text, k) == Scores[text, page.words[k]]

\* the token slots of the page with 4 or more characters scoring 80 or more
Qualifying(page, text) ==
    {k \in 1..Len(page.words) :
        Len(page.words[k]) >= 4 /\ TokenScore(page, text, k) >= fuzzy_threshold}

\* the readable pages that have a qualifying token
FuzzyPages(text) == {p \in Pages : ~doc[p].broken /\ Qualifying(doc[p], text) # {}}

\* C16: when the fuzzy pass has run for a record, it found nothing exactly
\* when no page has a qualifying token (4 or more characters, score >= 80);
\* otherwise the selected token is on the lowest page that has one, it is a
\* qualifying token of maximum score on that page, the earliest in page order
\* among those of maximum score, and the list find_text_fuzzy returns for the
\* page has at most 5 entries in descending score order.
C16_FuzzySelectsBestOnFirstPage ==
    (pc = "annotate" /\ i \in fuzzy_invoked) =>
        LET text == highlights[i].text
        IN  /\ FuzzyPages(text) = {} => ~fuzzy_used /\ found_quads = <<>> /\ fuzzy_page = 0
            /\ FuzzyPages(text) # {} =>
                  /\ fuzzy_used
                  /\ fuzzy_page \in FuzzyPages(text)
                  /\ \A p \in FuzzyPages(text) : fuzzy_page <= p
                  /\ Len(found_quads) = 1
                  /\ LET page == doc[fuzzy_page]
                         k == found_quads[1][1]
                         kept == find_text_fuzzy(page, text)
                     IN  /\ k \in Qualifying(page, text)
                         /\ Len(page.words[k]) >= 4
                         /\ found_quads[1] = <<k, 1, Len(page.words[k])>>
                         /\ \A j \in Qualifying(page, text) :
                               /\ TokenScore(page, text, j) <= TokenScore(page, text, k)
                               /\ TokenScore(page, text, j) = TokenScore(page, text, k) => k <= j
                         /\ Len(kept) <= max_fuzzy_results
                         /\ Len(kept) <= Cardinality(Qualifying(page, text))
                         /\ \A n \in 1..(Len(kept) - 1) : kept[n][2] >= kept[n + 1][2]
                         /\ kept[1][1] = found_quads[1]

\* C16 witness: the fuzzy pass chose a token of the second page, which has
\* more than 5 qualifying tokens, two of them tied at the maximum score and
\* lower-scoring ones before them; the first page has only a 3-character
\* token that scores over the threshold
C16_Witness ==
    /\ pc = "annotate"
    /\ i \in fuzzy_invoked
    /\ fuzzy_used
    /\ fuzzy_page = 2
    /\ \E k \in 1..Len(doc[1].words) :
          Len(doc[1].words[k]) < 4 /\ TokenScore(doc[1], highlights[i].text, k) >= fuzzy_threshold
    /\ Cardinality(Qualifying(doc[2], highlights[i].text)) > max_fuzzy_results
    /\ \E j \in Qualifying(doc[2], highlights[i].text) :
          /\ j > found_quads[1][1]
          /\ TokenScore(doc[2], highlights[i].text, j)
               = TokenScore(doc[2], highlights[i].text, found_quads[1][1])
    /\ \E j \in Qualifying(doc[2], highlights[i].text) :
          /\ j < found_quads[1][1]
          /\ TokenScore(doc[2], highlights[i].text, j)
               < TokenScore(doc[2], highlights[i].text, found_quads[1][1])

\* the annotations whose add_highlight_annotation call returned True
Successful == {a \in DOMAIN annots : annots[a].color # <<>>}

\* the loop over the records ran to its end
LoopDone == pc = "save" \/ output_path # "none"

\* C18: every processed record has incremented exactly one of
\* found_highlights and not_found_highlights, once: their sum is the number
\* of records processed, and the number of records when the loop has ended;
\* 0 <= fuzzy_highlights <= found_highlights; and found_highlights is the
\* number of successful annotation calls.
C18_CountersPartitionRecords ==
    /\ Len(outcomes) = processed
    /\ found_highlights = Cardinality({n \in DOMAIN outcomes : outcomes[n] = "found"})
    /\ not_found_highlights = Cardinality({n \in DOMAIN outcomes : outcomes[n] = "not_found"})
    /\ found_highlights + not_found_highlights = processed
    /\ LoopDone => found_highlights + not_found_highlights = Len(highlights)
    /\ 0 <= fuzzy_highlights
    /\ fuzzy_highlights <= found_highlights
    /\ found_highlights = Cardinality(Successful)
    /\ \A a, b \in Successful : annots[a].rec = annots[b].rec => a = b

\* C18 witness: a reported run over two records, one annotated and one whose
\* annotation call failed
C18_Witness ==
    /\ Reported
    /\ Len(highlights) = 2
    /\ found_highlights = 1
    /\ not_found_highlights = 1
    /\ annot_failures = 1

\* the workers inside process_highlights
Running == {t \in Threads : threads[t].at = "running"}

\* the workers that have not ended
Alive == {t \in Threads : threads[t].at # "done"}

\* C17: in the window, whatever the user does, at most one pipeline run is
\* executing and at most one worker is alive; no worker runs an instance
\* that another thread stored in self.highlighter; and the log widget holds
\* the output of one worker only.
C17_GuiOneRunNoSharedState ==
    /\ Cardinality(Running) <= 1
    /\ Cardinality(Alive) <= 1
    /\ \A t \in Running : threads[t].inst = t
    /\ Cardinality(log_writers) <= 1

====
